---- MODULE Spec2Model ----
(***************************************************************************)
(* State-machine model of CameraOverlay (src/app.py): the per-tick frame   *)
(* pipeline update_frame, the device handle and its reopen policy, the     *)
(* camera-permission gate, the lazily built segmentation model, the cutout *)
(* toggle and closeEvent.                                                  *)
(*                                                                         *)
(* The platform (sys.platform, sys.frozen, AVFoundation importable) is     *)
(* fixed for a run.  The authorization status, the capture backends, the   *)
(* result of a read, the result of building the model and unexpected       *)
(* failures of the frame steps are inputs chosen by the environment.       *)
(*                                                                         *)
(* A handler runs to its end before the next one starts (one Qt thread).   *)
(* closeEvent stops neither QTimer, so ticks may still follow it.          *)
(* Unexpected failures are drawn for the steps of the live branch of       *)
(* update_frame (read, flip, zoom, resize, segmentation, compositing).     *)
(***************************************************************************)
EXTENDS Integers, FiniteSets, Sequences, TLC

\* ---------------------------------------------------------------- bounds
\* ticks explored while the device is not live (two retry periods and one)
MaxCounter == 61
\* length of the runs of failed reads that are followed
MaxFailRun == 3
\* distinct frame contents a read can deliver
NFrames == 2
\* sightings of the status NotDetermined that are counted
MaxSeen == 2

\* ticks explored while the device is not live, when recovery is studied
MaxRecoveryCounter == 31

\* ticks explored while the device is not live, when shape, zoom and the
\* permission callback are studied
MaxUiCounter == 2
\* how far beyond the scroll bar's range a requested zoom value lies
ZoomOvershoot == 1

\* sides of the frames handed to _apply_zoom
MaxFrameW == 34
MaxFrameH == 3

\* pixels of the frames that are composited
NPixels == 2

\* lines of the messages handed to _render_placeholder, and how far the
\* longest line exceeds the width that is drawn
MaxLines == 7
LineOvershoot == 1

\* ------------------------------------------------------ program constants
\* update_frame: self._open_retry_counter % 30
RetryPeriod == 30
\* AppConfig.zoom_min, AppConfig.zoom_max
zoom_min == 100
zoom_max == 300
\* self.zoom_bar.setValue(200)
InitialZoom == 200
\* self.zoom_bar.setSingleStep(5)
ZoomSingleStep == 5
\* _apply_zoom: self.zoom_bar.value() / 100.0
ZoomScale == 100
\* update_frame: (mask > 0.5), the mask counted in hundredths
MaskThreshold == 50
\* update_frame: .astype(np.uint8) * 255
AlphaOpaque == 255
\* _render_placeholder: lines[:6], line[:64]
PlaceholderLines == 6
PlaceholderLineChars == 64

None == "None"

\* the messages stored in camera_error_message or handed to _render_placeholder
MsgPermissionOff == "camera permission is off, allow it in system settings"
MsgCheckPermission == "check the camera permission"
MsgAVFoundation == "AVFoundation cannot be loaded, rebuild the app"
MsgPlistUnreadable == "Info.plist cannot be read"
MsgPlistNoDescription == "no camera usage description"
MsgModelNotFound == "mediapipe model not found. searched ... rebuild the app."
MsgModelMissing == "mediapipe model missing. rebuild the app."
MsgInitFailed == "background removal failed to initialise"
MsgCameraUnavailable == "cannot open the camera"
MsgGeneric == "an error occurred, check the log"

Frames == 1..NFrames

AuthStates == {"Authorized", "Denied", "Restricted", "NotDetermined"}

\* sys.platform, getattr(sys, "frozen", False), "from AVFoundation import ..."
Platforms ==
    {[platform |-> "other", frozen |-> FALSE, avf |-> FALSE]}
    \cup [platform : {"darwin"}, frozen : BOOLEAN, avf : BOOLEAN]

VARIABLES
    cap,                   \* self.cap: None, Opened, Lost (isOpened() false), Released
    camera_error_message,  \* self.camera_error_message
    permission_requested,  \* self._permission_requested
    open_retry_counter,    \* self._open_retry_counter
    cutout_enabled,        \* self.cutout_enabled
    segmenter,             \* self.segmenter: None, Ready, Closed
    pixmap,                \* what self.label displays
    sysenv,                \* the platform of this process
    authStatus,            \* AVCaptureDevice.authorizationStatusForMediaType_
    ev,                    \* history: the handler that ran last and what it met
    tickNo,                \* history: ticks since startup, while never live
    attempts,              \* history: the ticks of tickNo that tried a reopen
    everLive,              \* history: the device has been live at some time
    promptCount,           \* history: calls of requestAccessForMediaType_
    ndSeen,                \* history: _ensure_camera_permission saw NotDetermined (0..2)
    constructCount,        \* history: SelfieSegmentation objects constructed
    initFailed,            \* history: what the last failed initialisation met
    failRun,               \* history: length of the current run of failed reads
    snap,                  \* history: the pipeline state before that run
    escaped,               \* history: a failure left a handler uncaught
    closed,                \* history: closeEvent has run
    outageTicks,           \* history: ticks that met the device not live since it was last live
    goodRun,               \* history: the last ticks of those that met no denial and no refusing backend
    shape,                 \* self.shape
    zoom_bar,              \* self.zoom_bar.value()
    pending,               \* completion handlers handed to AVFoundation, not yet run
    arg,                   \* the input of a pure step under study
    res                    \* what that step returned

vars == <<cap, camera_error_message, permission_requested, open_retry_counter,
          cutout_enabled, segmenter, pixmap, sysenv, authStatus, ev, tickNo,
          attempts, everLive, promptCount, ndSeen, constructCount, initFailed,
          failRun, snap, escaped, closed, outageTicks, goodRun, shape, zoom_bar,
          pending, arg, res>>

\* the fields of the object the handlers read and write
Self ==
    [cap |-> cap, msg |-> camera_error_message, req |-> permission_requested,
     ctr |-> open_retry_counter, cutout |-> cutout_enabled, seg |-> segmenter,
     pix |-> pixmap, shape |-> shape, zoom |-> zoom_bar]

\* "not self.cap or not self.cap.isOpened()" negated
IsLive(c) == c = "Opened"

\* ------------------------------------------------------------- bitmaps
NoPixmap == [kind |-> "none", text |-> "", frame |-> 0]

\* _render_placeholder: "message if message else error"
render_placeholder(message) ==
    [kind |-> "placeholder",
     text |-> IF message = None \/ message = "" THEN "error" ELSE message,
     frame |-> 0]

\* QImage(rgb.data, ..., Format_RGB888) of the frame that was read
ComposeRGB(f) == [kind |-> "rgb", text |-> "", frame |-> f]

\* QImage(rgba.data, ..., Format_RGBA8888) of the frame and its mask
ComposeRGBA(f) == [kind |-> "rgba", text |-> "", frame |-> f]

\* ------------------------------------------------------ permission gate
\* a plausible slip: _permission_requested is tested but never set
ensure_camera_permission_no_flag(s, env, status) ==
    IF env.platform # "darwin"
    THEN [self |-> s, prompts |-> 0, sawND |-> FALSE]
    ELSE IF ~env.avf
    THEN [self |-> [s EXCEPT !.msg = MsgAVFoundation], prompts |-> 0, sawND |-> FALSE]
    ELSE IF status = "Authorized"
    THEN [self |-> s, prompts |-> 0, sawND |-> FALSE]
    ELSE IF status \in {"Denied", "Restricted"}
    THEN [self |-> [s EXCEPT !.msg = MsgPermissionOff], prompts |-> 0, sawND |-> FALSE]
    ELSE IF status = "NotDetermined" /\ ~s.req
    THEN [self |-> s, prompts |-> 1, sawND |-> TRUE]
    ELSE [self |-> s, prompts |-> 0, sawND |-> status = "NotDetermined"]

\* _ensure_camera_permission: the fields it leaves, the prompts it fired
\* (requestAccessForMediaType_completionHandler_) and whether it read the
\* status NotDetermined
ensure_camera_permission(s, env, status) ==
    IF env.platform # "darwin"
    THEN [self |-> s, prompts |-> 0, sawND |-> FALSE]
    ELSE IF ~env.avf
    THEN [self |-> [s EXCEPT !.msg = MsgAVFoundation], prompts |-> 0, sawND |-> FALSE]
    ELSE IF status = "Authorized"
    THEN [self |-> s, prompts |-> 0, sawND |-> FALSE]
    ELSE IF status \in {"Denied", "Restricted"}
    THEN [self |-> [s EXCEPT !.msg = MsgPermissionOff], prompts |-> 0, sawND |-> FALSE]
    ELSE IF status = "NotDetermined" /\ ~s.req
    THEN [self |-> [s EXCEPT !.req = TRUE], prompts |-> 1, sawND |-> TRUE]
    ELSE [self |-> s, prompts |-> 0, sawND |-> status = "NotDetermined"]

\* _camera_permission_denied
camera_permission_denied(s, env, status) ==
    IF env.platform # "darwin"
    THEN [self |-> s, denied |-> FALSE]
    ELSE IF ~env.avf
    THEN [self |-> [s EXCEPT !.msg = MsgAVFoundation], denied |-> FALSE]
    ELSE [self |-> s, denied |-> status \in {"Denied", "Restricted"}]

\* a plausible slip: a handle that opened clears the recorded message
open_camera_clears(s, env, status, pref, fb) ==
    LET d == camera_permission_denied(s, env, status) IN
    IF d.denied
    THEN [self |-> [d.self EXCEPT !.msg = MsgPermissionOff], cap |-> None,
          tried |-> <<>>, backend |-> None]
    ELSE IF pref
    THEN [self |-> [d.self EXCEPT !.msg = None], cap |-> "Opened",
          tried |-> <<"preferred">>, backend |-> "preferred"]
    ELSE IF ~fb
    THEN [self |-> [d.self EXCEPT !.msg = MsgCheckPermission], cap |-> None,
          tried |-> <<"preferred", "fallback">>, backend |-> None]
    ELSE [self |-> [d.self EXCEPT !.msg = None], cap |-> "Opened",
          tried |-> <<"preferred", "fallback">>, backend |-> "fallback"]

\* a plausible slip: the denied branch records its message and lacks the
\* "return None", so the backends are asked all the same
open_camera_no_return(s, env, status, pref, fb) ==
    LET d == camera_permission_denied(s, env, status)
        s1 == IF d.denied THEN [d.self EXCEPT !.msg = MsgPermissionOff]
              ELSE d.self
    IN
    IF pref
    THEN [self |-> s1, cap |-> "Opened", tried |-> <<"preferred">>,
          backend |-> "preferred"]
    ELSE IF ~fb
    THEN [self |-> [s1 EXCEPT !.msg = MsgCheckPermission], cap |-> None,
          tried |-> <<"preferred", "fallback">>, backend |-> None]
    ELSE [self |-> s1, cap |-> "Opened",
          tried |-> <<"preferred", "fallback">>, backend |-> "fallback"]

\* _open_camera: pref and fb say whether cv2.VideoCapture(0, CAP_AVFOUNDATION)
\* and cv2.VideoCapture(0) report themselves opened; cap is the value
\* returned, tried the constructors called in order, backend the one whose
\* handle is returned
open_camera(s, env, status, pref, fb) ==
    LET d == camera_permission_denied(s, env, status) IN
    IF d.denied
    THEN [self |-> [d.self EXCEPT !.msg = MsgPermissionOff], cap |-> None,
          tried |-> <<>>, backend |-> None]
    ELSE IF pref
    THEN [self |-> d.self, cap |-> "Opened", tried |-> <<"preferred">>,
          backend |-> "preferred"]
    ELSE IF ~fb
    THEN [self |-> [d.self EXCEPT !.msg = MsgCheckPermission], cap |-> None,
          tried |-> <<"preferred", "fallback">>, backend |-> None]
    ELSE [self |-> d.self, cap |-> "Opened",
          tried |-> <<"preferred", "fallback">>, backend |-> "fallback"]

\* no call of _open_camera
NoOpen ==
    [called |-> FALSE, status |-> "na", pref |-> FALSE, fb |-> FALSE,
     tried |-> <<>>, cap |-> None, backend |-> None, msg |-> None]

\* a call of _open_camera: the authorization status and the backends it met,
\* the constructors it called, what it returned and the message it left
OpenReport(o, status, pref, fb) ==
    [called |-> TRUE, status |-> status, pref |-> pref, fb |-> fb,
     tried |-> o.tried, cap |-> o.cap, backend |-> o.backend,
     msg |-> o.self.msg]

PlistOutcomes == {"ok", "unreadable", "nodescription"}

\* _validate_camera_usage_description
validate_camera_usage_description(s, env, plist) ==
    IF env.platform # "darwin" \/ ~env.frozen
    THEN [self |-> s, ok |-> TRUE]
    ELSE IF plist = "unreadable"
    THEN [self |-> [s EXCEPT !.msg = MsgPlistUnreadable], ok |-> FALSE]
    ELSE IF plist = "nodescription"
    THEN [self |-> [s EXCEPT !.msg = MsgPlistNoDescription], ok |-> FALSE]
    ELSE [self |-> s, ok |-> TRUE]

\* ------------------------------------------------- segmentation model
\* what building the model can meet: the frozen bundle holds no
\* selfie_segmentation_cpu.binarypb ("notfound"), the constructor raises
\* FileNotFoundError ("filenotfound") or another Exception ("error"), or it
\* returns ("ok")
SegmenterOutcomes(env) ==
    {"ok", "filenotfound", "error"}
    \cup (IF env.platform = "darwin" /\ env.frozen THEN {"notfound"} ELSE {})

\* a plausible slip: the model that was built is kept in a local name and
\* never stored in self.segmenter
ensure_segmenter_ready_no_store(s, env, outcome) ==
    IF s.seg # None
    THEN [self |-> s, ok |-> TRUE, inits |-> 0, constructed |-> 0]
    ELSE IF env.platform = "darwin" /\ env.frozen /\ outcome = "notfound"
    THEN [self |-> [s EXCEPT !.msg = MsgModelNotFound,
                             !.pix = render_placeholder(MsgModelNotFound)],
          ok |-> FALSE, inits |-> 1, constructed |-> 0]
    ELSE IF outcome = "filenotfound"
    THEN [self |-> [s EXCEPT !.msg = MsgModelMissing,
                             !.pix = render_placeholder(MsgModelMissing)],
          ok |-> FALSE, inits |-> 1, constructed |-> 0]
    ELSE IF outcome = "error"
    THEN [self |-> [s EXCEPT !.msg = MsgInitFailed,
                             !.pix = render_placeholder(MsgInitFailed)],
          ok |-> FALSE, inits |-> 1, constructed |-> 0]
    ELSE [self |-> s, ok |-> TRUE, inits |-> 1, constructed |-> 1]

\* a plausible slip: a failed initialisation records its message and
\* returns False without calling _render_placeholder
ensure_segmenter_ready_no_render(s, env, outcome) ==
    IF s.seg # None
    THEN [self |-> s, ok |-> TRUE, inits |-> 0, constructed |-> 0]
    ELSE IF outcome = "ok"
    THEN [self |-> [s EXCEPT !.seg = "Ready"],
          ok |-> TRUE, inits |-> 1, constructed |-> 1]
    ELSE [self |-> [s EXCEPT !.msg =
                        IF outcome = "notfound" THEN MsgModelNotFound
                        ELSE IF outcome = "filenotfound" THEN MsgModelMissing
                        ELSE MsgInitFailed],
          ok |-> FALSE, inits |-> 1, constructed |-> 0]

\* _ensure_segmenter_ready: ok is the value returned, inits counts passes
\* beyond the "if self.segmenter" test, constructed the models built
ensure_segmenter_ready(s, env, outcome) ==
    IF s.seg # None
    THEN [self |-> s, ok |-> TRUE, inits |-> 0, constructed |-> 0]
    ELSE IF env.platform = "darwin" /\ env.frozen /\ outcome = "notfound"
    THEN [self |-> [s EXCEPT !.msg = MsgModelNotFound,
                             !.pix = render_placeholder(MsgModelNotFound)],
          ok |-> FALSE, inits |-> 1, constructed |-> 0]
    ELSE IF outcome = "filenotfound"
    THEN [self |-> [s EXCEPT !.msg = MsgModelMissing,
                             !.pix = render_placeholder(MsgModelMissing)],
          ok |-> FALSE, inits |-> 1, constructed |-> 0]
    ELSE IF outcome = "error"
    THEN [self |-> [s EXCEPT !.msg = MsgInitFailed,
                             !.pix = render_placeholder(MsgInitFailed)],
          ok |-> FALSE, inits |-> 1, constructed |-> 0]
    ELSE [self |-> [s EXCEPT !.seg = "Ready"],
          ok |-> TRUE, inits |-> 1, constructed |-> 1]

\* the outcomes a call can meet: none is drawn once the model exists
OutcomesFor(s, env) == IF s.seg # None THEN {"na"} ELSE SegmenterOutcomes(env)

\* ------------------------------------------------------------ history
\* what a handler reports of its run
NoEv ==
    [op |-> "init", live |-> FALSE, permCheck |-> FALSE, reopen |-> FALSE,
     sawND |-> FALSE, prompts |-> 0, read |-> FALSE, mask |-> FALSE,
     raised |-> FALSE, escaped |-> FALSE, wasOff |-> FALSE, outcome |-> "na",
     inits |-> 0, constructed |-> 0, releases |-> 0, zoom |-> 0,
     refused |-> FALSE, calls |-> 0, open |-> NoOpen]

EvTick == [NoEv EXCEPT !.op = "tick"]
EvToggle == [NoEv EXCEPT !.op = "toggle"]
EvClose == [NoEv EXCEPT !.op = "close"]
EvLost == [NoEv EXCEPT !.op = "lost"]
EvShape == [NoEv EXCEPT !.op = "shape"]
EvZoom == [NoEv EXCEPT !.op = "zoom"]
EvCallback == [NoEv EXCEPT !.op = "callback", !.calls = 1]

\* ------------------------------------------------------------ update_frame
\* a plausible slip: the modulus is tested before the counter is incremented
RetryDueBeforeIncrement(counter) == (counter - 1) % RetryPeriod = 0

\* "self._open_retry_counter % 30 == 0"
RetryDue(counter) == counter % RetryPeriod = 0

\* a plausible slip: the recorded message is not consulted
PlaceholderMessageDefaultOnly(msg) == MsgCameraUnavailable

\* "self.camera_error_message or <camera cannot be opened>"
PlaceholderMessage(msg) ==
    IF msg = None \/ msg = "" THEN MsgCameraUnavailable ELSE msg

\* a plausible slip: update_frame has no try/except, the failure leaves it
OnExceptionUncaught(s, e) ==
    [self |-> s, ev |-> [e EXCEPT !.raised = TRUE, !.escaped = TRUE]]

\* "except Exception": log, render the generic placeholder
OnException(s, e) ==
    [self |-> [s EXCEPT !.pix = render_placeholder(MsgGeneric)],
     ev |-> [e EXCEPT !.raised = TRUE]]

\* a plausible slip: a failed read is treated as an error and drawn
OnReadFailureDrawsError(s, e) ==
    [self |-> [s EXCEPT !.pix = render_placeholder(MsgGeneric)], ev |-> e]

\* "if not success: return"
OnReadFailure(s, e) == [self |-> s, ev |-> e]

\* "if mask is None: return"
OnNoMask(s, e) == [self |-> s, ev |-> e]

\* a plausible slip: a reopen that succeeds resets the retry counter
NotLiveTickResets(s, env, status) ==
    LET s1 == [s EXCEPT !.ctr = @ + 1] IN
    IF RetryDue(s1.ctr)
    THEN { LET p == ensure_camera_permission(s1, env, status)
               o == open_camera(p.self, env, status, b[1], b[2])
               s2 == [o.self EXCEPT !.cap = o.cap,
                                    !.ctr = IF IsLive(o.cap) THEN 0 ELSE @]
           IN  [self |-> [s2 EXCEPT !.pix =
                              render_placeholder(PlaceholderMessage(s2.msg))],
                ev |-> [EvTick EXCEPT !.permCheck = TRUE, !.reopen = TRUE,
                                      !.sawND = p.sawND, !.prompts = p.prompts,
                                      !.refused = (o.tried # <<>> /\ o.cap = None),
                                      !.open = OpenReport(o, status, b[1], b[2])]]
           : b \in BOOLEAN \X BOOLEAN }
    ELSE { [self |-> [s1 EXCEPT !.pix =
                          render_placeholder(PlaceholderMessage(s1.msg))],
            ev |-> EvTick] }

\* a plausible slip: _open_camera() is called and the handle it returns is
\* not assigned to self.cap
NotLiveTickDropsHandle(s, env, status) ==
    LET s1 == [s EXCEPT !.ctr = @ + 1] IN
    IF RetryDue(s1.ctr)
    THEN { LET p == ensure_camera_permission(s1, env, status)
               o == open_camera(p.self, env, status, b[1], b[2])
               s2 == o.self
           IN  [self |-> [s2 EXCEPT !.pix =
                              render_placeholder(PlaceholderMessage(s2.msg))],
                ev |-> [EvTick EXCEPT !.permCheck = TRUE, !.reopen = TRUE,
                                      !.sawND = p.sawND, !.prompts = p.prompts,
                                      !.refused = (o.tried # <<>> /\ o.cap = None),
                                      !.open = OpenReport(o, status, b[1], b[2])]]
           : b \in BOOLEAN \X BOOLEAN }
    ELSE { [self |-> [s1 EXCEPT !.pix =
                          render_placeholder(PlaceholderMessage(s1.msg))],
            ev |-> EvTick] }

\* the branch of update_frame taken when the device is not live
NotLiveTick(s, env, status) ==
    LET s1 == [s EXCEPT !.ctr = @ + 1] IN
    IF RetryDue(s1.ctr)
    THEN { LET p == ensure_camera_permission(s1, env, status)
               o == open_camera(p.self, env, status, b[1], b[2])
               s2 == [o.self EXCEPT !.cap = o.cap]
           IN  [self |-> [s2 EXCEPT !.pix =
                              render_placeholder(PlaceholderMessage(s2.msg))],
                ev |-> [EvTick EXCEPT !.permCheck = TRUE, !.reopen = TRUE,
                                      !.sawND = p.sawND, !.prompts = p.prompts,
                                      !.refused = (o.tried # <<>> /\ o.cap = None),
                                      !.open = OpenReport(o, status, b[1], b[2])]]
           : b \in BOOLEAN \X BOOLEAN }
    ELSE { [self |-> [s1 EXCEPT !.pix =
                          render_placeholder(PlaceholderMessage(s1.msg))],
            ev |-> EvTick] }

\* the cutout branch of update_frame, on the resized frame f
CutoutFrame(s, env, f, e) ==
    UNION { LET r == ensure_segmenter_ready(s, env, oc)
                e1 == [e EXCEPT !.outcome = oc, !.inits = r.inits,
                                !.constructed = r.constructed]
            IN  IF ~r.ok
                THEN { [self |-> r.self, ev |-> e1] }
                ELSE IF r.self.seg = "Closed"
                \* process() of a model closeEvent has closed raises
                THEN { OnException(r.self, e1) }
                ELSE { OnException(r.self, e1),
                       OnNoMask(r.self, e1),
                       OnException(r.self, [e1 EXCEPT !.mask = TRUE]),
                       [self |-> [r.self EXCEPT !.pix = ComposeRGBA(f)],
                        ev |-> [e1 EXCEPT !.mask = TRUE]] }
            : oc \in OutcomesFor(s, env) }

\* the branch of update_frame taken when the device is live
LiveTick(s, env) ==
    LET e == [EvTick EXCEPT !.live = TRUE] IN
    { OnReadFailure(s, e), OnException(s, e) }
    \cup UNION { LET e1 == [e EXCEPT !.read = TRUE]
                     \* _apply_zoom has read self.zoom_bar.value()
                     e2 == [e1 EXCEPT !.zoom = s.zoom]
                 IN
                 { OnException(s, e1) }
                 \cup (IF s.cutout
                       THEN CutoutFrame(s, env, f, e2)
                       ELSE { OnException(s, e2),
                              [self |-> [s EXCEPT !.pix = ComposeRGB(f)],
                               ev |-> e2] })
                 : f \in Frames }

\* update_frame: the outcomes of one tick
update_frame(s, env, status) ==
    IF ~IsLive(s.cap) THEN NotLiveTick(s, env, status) ELSE LiveTick(s, env)

\* a plausible slip: the flag is set whether or not the model is ready
toggle_cutout_keeps_on(s, env) ==
    IF ~s.cutout
    THEN { LET r == ensure_segmenter_ready(s, env, oc)
               e == [EvToggle EXCEPT !.wasOff = TRUE, !.outcome = oc,
                                     !.inits = r.inits,
                                     !.constructed = r.constructed]
           IN  [self |-> [r.self EXCEPT !.cutout = TRUE], ev |-> e]
           : oc \in OutcomesFor(s, env) }
    ELSE { [self |-> [s EXCEPT !.cutout = FALSE], ev |-> EvToggle] }

\* a plausible slip: switching cutout off tears the model down
toggle_cutout_teardown(s, env) ==
    IF ~s.cutout
    THEN { LET r == ensure_segmenter_ready(s, env, oc)
               e == [EvToggle EXCEPT !.wasOff = TRUE, !.outcome = oc,
                                     !.inits = r.inits,
                                     !.constructed = r.constructed]
           IN  IF ~r.ok
               THEN [self |-> r.self, ev |-> e]
               ELSE [self |-> [r.self EXCEPT !.cutout = TRUE], ev |-> e]
           : oc \in OutcomesFor(s, env) }
    ELSE { [self |-> [s EXCEPT !.cutout = FALSE, !.seg = None],
            ev |-> EvToggle] }

\* ---------------------------------------------------------- toggle_cutout
toggle_cutout(s, env) ==
    IF ~s.cutout
    THEN { LET r == ensure_segmenter_ready(s, env, oc)
               e == [EvToggle EXCEPT !.wasOff = TRUE, !.outcome = oc,
                                     !.inits = r.inits,
                                     !.constructed = r.constructed]
           IN  IF ~r.ok
               THEN [self |-> r.self, ev |-> e]
               ELSE [self |-> [r.self EXCEPT !.cutout = TRUE], ev |-> e]
           : oc \in OutcomesFor(s, env) }
    ELSE { [self |-> [s EXCEPT !.cutout = FALSE], ev |-> EvToggle] }

\* ------------------------------------------------------------- closeEvent
\* a plausible slip: release() is called without the guard; on None it
\* raises, on a released handle it releases again
ReleaseOnCloseUnguarded(s, e) ==
    IF s.cap = None
    THEN [self |-> s, ev |-> [e EXCEPT !.escaped = TRUE]]
    ELSE [self |-> [s EXCEPT !.cap = "Released"],
          ev |-> [e EXCEPT !.live = IsLive(s.cap), !.releases = 1]]

\* "if self.cap and self.cap.isOpened(): self.cap.release()"
ReleaseOnClose(s, e) ==
    IF IsLive(s.cap)
    THEN [self |-> [s EXCEPT !.cap = "Released"],
          ev |-> [e EXCEPT !.live = TRUE, !.releases = 1]]
    ELSE [self |-> s, ev |-> e]

closeEvent(s) ==
    LET r == ReleaseOnClose(s, EvClose) IN
    IF r.self.seg # None
    THEN [self |-> [r.self EXCEPT !.seg = "Closed"], ev |-> r.ev]
    ELSE r

\* ---------------------------------------------------------------- __init__
\* the authorization states of a platform: only macOS with AVFoundation
\* loaded ever reads one
StatusesOf(env) ==
    IF env.platform = "darwin" /\ env.avf THEN AuthStates ELSE {"Authorized"}

\* __init__: the object after construction
init_object(env, status, plist, pref, fb) ==
    LET s0 == [cap |-> None, msg |-> None, req |-> FALSE, ctr |-> 0,
               cutout |-> FALSE, seg |-> None, pix |-> NoPixmap,
               shape |-> "square", zoom |-> InitialZoom]
        p == ensure_camera_permission(s0, env, status)
        v == validate_camera_usage_description(p.self, env, plist)
        o == IF v.ok
             THEN open_camera(v.self, env, status, pref, fb)
             ELSE [self |-> v.self, cap |-> None, tried |-> <<>>,
                   backend |-> None]
    IN  [self |-> [o.self EXCEPT !.cap = o.cap],
         ev |-> [NoEv EXCEPT !.permCheck = TRUE, !.reopen = v.ok,
                             !.sawND = p.sawND, !.prompts = p.prompts,
                             !.open = IF v.ok
                                      THEN OpenReport(o, status, pref, fb)
                                      ELSE NoOpen]]

NoSnap == [cap |-> None, msg |-> None, req |-> FALSE, ctr |-> 0,
           cutout |-> FALSE, seg |-> None, pix |-> NoPixmap,
           shape |-> "square", zoom |-> InitialZoom]

\* no pure step is under study
NoArg == <<>>

Seen(n, saw) == IF saw /\ n < MaxSeen THEN n + 1 ELSE n

InitObject ==
    \E env \in Platforms, plist \in PlistOutcomes, b \in BOOLEAN \X BOOLEAN :
      \E status \in StatusesOf(env) :
        LET r == init_object(env, status, plist, b[1], b[2]) IN
        /\ sysenv = env
        /\ authStatus = status
        /\ cap = r.self.cap
        /\ camera_error_message = r.self.msg
        /\ permission_requested = r.self.req
        /\ open_retry_counter = r.self.ctr
        /\ cutout_enabled = r.self.cutout
        /\ segmenter = r.self.seg
        /\ pixmap = r.self.pix
        /\ ev = r.ev
        /\ tickNo = 0
        /\ attempts = {}
        /\ everLive = IsLive(r.self.cap)
        /\ promptCount = r.ev.prompts
        /\ ndSeen = Seen(0, r.ev.sawND)
        /\ constructCount = 0
        /\ initFailed = "na"
        /\ failRun = 0
        /\ snap = NoSnap
        /\ escaped = FALSE
        /\ closed = FALSE
        /\ outageTicks = 0
        /\ goodRun = 0
        /\ shape = r.self.shape
        /\ zoom_bar = r.self.zoom
        /\ pending = r.ev.prompts

\* the object after construction; no pure step is under study
Init == InitObject /\ arg = NoArg /\ res = NoArg

\* a handler's outcome r becomes the state
Store(r) ==
    /\ cap' = r.self.cap
    /\ camera_error_message' = r.self.msg
    /\ permission_requested' = r.self.req
    /\ open_retry_counter' = r.self.ctr
    /\ cutout_enabled' = r.self.cutout
    /\ segmenter' = r.self.seg
    /\ pixmap' = r.self.pix
    /\ ev' = r.ev
    /\ promptCount' = promptCount + r.ev.prompts
    /\ ndSeen' = Seen(ndSeen, r.ev.sawND)
    /\ constructCount' = constructCount + r.ev.constructed
    /\ initFailed' = IF r.ev.inits > r.ev.constructed THEN r.ev.outcome
                     ELSE initFailed
    /\ escaped' = (escaped \/ r.ev.escaped)
    /\ shape' = r.self.shape
    /\ zoom_bar' = r.self.zoom
    /\ pending' = pending + r.ev.prompts - r.ev.calls
    /\ UNCHANGED <<arg, res>>

ReadFailed(e) == e.op = "tick" /\ e.live /\ ~e.read /\ ~e.raised

\* one run of update_frame
TickStep ==
    /\ \E r \in update_frame(Self, sysenv, authStatus) :
         /\ Store(r)
         /\ everLive' = (everLive \/ IsLive(r.self.cap))
         /\ tickNo' = IF everLive' THEN 0 ELSE tickNo + 1
         /\ attempts' = IF everLive' THEN {}
                        ELSE IF r.ev.reopen THEN attempts \cup {tickNo + 1}
                        ELSE attempts
         /\ failRun' = IF ~ReadFailed(r.ev) THEN 0
                       ELSE IF failRun < MaxFailRun THEN failRun + 1
                       ELSE failRun
         /\ snap' = IF ~ReadFailed(r.ev) THEN NoSnap
                    ELSE IF failRun = 0 THEN Self
                    ELSE snap
    /\ outageTicks' = IF IsLive(cap) THEN 0 ELSE outageTicks + 1
    /\ UNCHANGED <<sysenv, authStatus, closed>>

\* the QTimer fires: update_frame runs
Tick ==
    /\ IsLive(cap) \/ open_retry_counter < MaxCounter
    /\ TickStep
    /\ UNCHANGED goodRun

\* the cutout button is clicked
ToggleCutout ==
    /\ \E r \in toggle_cutout(Self, sysenv) : Store(r)
    /\ failRun' = 0
    /\ snap' = NoSnap
    /\ UNCHANGED <<sysenv, authStatus, tickNo, attempts, everLive, closed,
                   outageTicks, goodRun>>

\* one run of closeEvent
CloseStep ==
    /\ Store(closeEvent(Self))
    /\ closed' = TRUE
    /\ failRun' = 0
    /\ snap' = NoSnap
    /\ outageTicks' = IF IsLive(cap) THEN 0 ELSE outageTicks
    /\ UNCHANGED <<sysenv, authStatus, tickNo, attempts, everLive>>

\* the window is closed
Close == CloseStep /\ UNCHANGED goodRun

\* the handle stops reporting itself opened
DeviceLostStep ==
    /\ IsLive(cap)
    /\ cap' = "Lost"
    /\ ev' = EvLost
    /\ failRun' = 0
    /\ snap' = NoSnap
    /\ outageTicks' = 0
    /\ UNCHANGED <<camera_error_message, permission_requested,
                   open_retry_counter, cutout_enabled, segmenter, pixmap,
                   sysenv, authStatus, tickNo, attempts, everLive,
                   promptCount, ndSeen, constructCount, initFailed, escaped,
                   closed, shape, zoom_bar, pending, arg, res>>

\* the capture device goes away: isOpened() turns false
DeviceLost == DeviceLostStep /\ UNCHANGED goodRun

\* the user answers the prompt or changes the setting
AuthChange ==
    /\ sysenv.platform = "darwin" /\ sysenv.avf
    /\ \E st \in AuthStates \ {authStatus} : authStatus' = st
    /\ UNCHANGED <<cap, camera_error_message, permission_requested,
                   open_retry_counter, cutout_enabled, segmenter, pixmap,
                   sysenv, ev, tickNo, attempts, everLive, promptCount, ndSeen,
                   constructCount, initFailed, failRun, snap, escaped, closed,
                   outageTicks, goodRun, shape, zoom_bar, pending, arg, res>>

Next == Tick \/ ToggleCutout \/ Close \/ DeviceLost \/ AuthChange

Spec == Init /\ [][Next]_vars

\* ------------------------------------- shape, zoom, permission callback
\* toggle_shape
toggle_shape(s) ==
    [self |-> [s EXCEPT !.shape = IF @ = "square" THEN "circle" ELSE "square"],
     ev |-> EvShape]

\* a plausible slip: the scroll bar is given no range, every value is kept
zoom_bar_setValue_unbounded(s, value) == [s EXCEPT !.zoom = value]

\* the scroll bar takes a value: setMinimum(zoom_min) and setMaximum(zoom_max)
\* make it keep the value inside its range
zoom_bar_setValue(s, value) ==
    [s EXCEPT !.zoom = IF value < zoom_min THEN zoom_min
                       ELSE IF value > zoom_max THEN zoom_max
                       ELSE value]

\* on_zoom_change: the label text is rewritten, nothing else
on_zoom_change(s, value, requested) ==
    [self |-> s,
     ev |-> [EvZoom EXCEPT !.zoom = value,
                           !.outcome = IF value = requested THEN "kept"
                                       ELSE "clamped"]]

\* a plausible slip: the completion handler records the denial
permission_handler_records(s, granted) ==
    [self |-> IF granted THEN s ELSE [s EXCEPT !.msg = MsgPermissionOff],
     ev |-> [EvCallback EXCEPT !.outcome =
                 IF granted THEN "granted" ELSE "denied"]]

\* _handler: logging.info of the outcome
permission_handler(s, granted) ==
    [self |-> s,
     ev |-> [EvCallback EXCEPT !.outcome =
                 IF granted THEN "granted" ELSE "denied"]]

\* the values asked of the scroll bar: below, inside and above its range
ZoomRequests ==
    {zoom_min - ZoomOvershoot, (zoom_min + zoom_max) \div 2,
     zoom_max + ZoomOvershoot}

\* the QTimer fires
TickUI ==
    /\ IsLive(cap) \/ open_retry_counter < MaxUiCounter
    /\ TickStep
    /\ UNCHANGED goodRun

\* the shape button is clicked
ToggleShape ==
    /\ Store(toggle_shape(Self))
    /\ failRun' = 0
    /\ snap' = NoSnap
    /\ UNCHANGED <<sysenv, authStatus, tickNo, attempts, everLive, closed,
                   outageTicks, goodRun>>

\* the scroll bar is asked to take a value: valueChanged is emitted when the
\* value it keeps differs from the one it had
SetZoom(requested) ==
    /\ LET s1 == zoom_bar_setValue(Self, requested) IN
         /\ s1.zoom # zoom_bar
         /\ Store(on_zoom_change(s1, s1.zoom, requested))
    /\ failRun' = 0
    /\ snap' = NoSnap
    /\ UNCHANGED <<sysenv, authStatus, tickNo, attempts, everLive, closed,
                   outageTicks, goodRun>>

\* the scroll bar is moved
ZoomChange == \E requested \in ZoomRequests : SetZoom(requested)

\* AVFoundation calls the completion handler it was handed
PermissionCallback ==
    /\ pending > 0
    /\ \E granted \in BOOLEAN : Store(permission_handler(Self, granted))
    /\ failRun' = 0
    /\ snap' = NoSnap
    /\ UNCHANGED <<sysenv, authStatus, tickNo, attempts, everLive, closed,
                   outageTicks, goodRun>>

NextUI ==
    \/ TickUI \/ ToggleCutout \/ Close \/ DeviceLost \/ AuthChange
    \/ ToggleShape \/ ZoomChange \/ PermissionCallback

SpecUI == Init /\ [][NextUI]_vars

\* ------------------------------------------------------------ _apply_zoom
\* the variables of the object and its history, all but arg and res
objVars ==
    <<cap, camera_error_message, permission_requested, open_retry_counter,
      cutout_enabled, segmenter, pixmap, sysenv, authStatus, ev, tickNo,
      attempts, everLive, promptCount, ndSeen, constructCount, initFailed,
      failRun, snap, escaped, closed, outageTicks, goodRun, shape, zoom_bar,
      pending>>

\* max(a, b)
Max(a, b) == IF a >= b THEN a ELSE b

\* the pairs (n, value), n up to 60, for which n / (value / 100.0) is a
\* whole number q in exact arithmetic and a double just below q in binary
\* floating point (1.1, 1.12, 1.36, 2.2, 2.24 have no exact double): int()
\* truncates it to q - 1.  int(33 / 1.1) is 29, int(28 / 1.12) is 24
TruncatedBelow ==
    {<<28, 112>>, <<33, 110>>, <<33, 220>>, <<34, 136>>,
     <<55, 110>>, <<55, 220>>, <<56, 112>>, <<56, 224>>}

\* int(n / zoom) for zoom = value / 100.0, n up to 60
IntOfQuotient(n, value) ==
    IF <<n, value>> \in TruncatedBelow
    THEN (ZoomScale * n) \div value - 1
    ELSE (ZoomScale * n) \div value

\* _apply_zoom on a frame of w by h pixels: the rectangle of the frame that
\* is returned
apply_zoom(s, w, h) ==
    IF s.zoom <= ZoomScale
    THEN [x |-> 0, y |-> 0, w |-> w, h |-> h]
    ELSE LET new_w == Max(1, IntOfQuotient(w, s.zoom))
             new_h == Max(1, IntOfQuotient(h, s.zoom))
         IN  [x |-> (w - new_w) \div 2, y |-> (h - new_h) \div 2,
              w |-> new_w, h |-> new_h]

\* the values the scroll bar takes by single steps from its first value
ZoomPercents == {v \in zoom_min..zoom_max : v % ZoomSingleStep = 0}

\* the object after construction on a platform without a permission gate,
\* the camera opened
InitLiveObject == InitObject /\ sysenv.platform = "other" /\ IsLive(cap)

\* the sizes of the frames a read delivers
ZoomInputs == [op : {"zoom"}, w : 1..MaxFrameW, h : 1..MaxFrameH]

InitZoom == arg \in ZoomInputs /\ res = NoArg /\ InitLiveObject

\* the scroll bar is moved by steps, before the frame is handed over
ZoomDrag == res = NoArg /\ \E requested \in ZoomPercents : SetZoom(requested)

\* _apply_zoom runs on the frame, with the value the scroll bar has
ApplyZoom ==
    /\ res = NoArg /\ IsLive(cap)
    /\ res' = [value |-> zoom_bar, crop |-> apply_zoom(Self, arg.w, arg.h)]
    /\ UNCHANGED <<objVars, arg>>

NextZoom == ZoomDrag \/ ApplyZoom

SpecZoom == InitZoom /\ [][NextZoom]_vars

\* ----------------------------------------------- compositing with a mask
\* a pixel is <<b, g, r>> as OpenCV delivers it
Pixels == {0, AlphaOpaque} \X {0, AlphaOpaque} \X {0, AlphaOpaque}

\* the values of the segmentation mask, in hundredths: 0, 0.5 and just above
MaskValues == {0, MaskThreshold, MaskThreshold + 1}

\* cv2.cvtColor(frame, cv2.COLOR_BGR2RGB) on one pixel
cvtColor_BGR2RGB(px) == <<px[3], px[2], px[1]>>

\* a plausible slip: the threshold is inclusive
alpha_of_inclusive(m) == IF m >= MaskThreshold THEN AlphaOpaque ELSE 0

\* (mask > 0.5).astype(np.uint8) * 255 on one mask value
alpha_of(m) == IF m > MaskThreshold THEN AlphaOpaque ELSE 0

\* np.dstack((rgb, alpha)): the pixels of the RGBA8888 image
composite(frame, mask) ==
    [i \in 1..Len(frame) |->
        cvtColor_BGR2RGB(frame[i]) \o <<alpha_of(mask[i])>>]

\* the frames of n pixels a read delivers and the masks the model returns
\* for them
AlphaInputs(n) ==
    [op : {"alpha"}, frame : [1..n -> Pixels], mask : [1..n -> MaskValues]]

InitAlpha ==
    \E inputs \in {AlphaInputs(NPixels)} :
        InitLiveObject /\ arg \in inputs /\ res = NoArg

\* the cutout branch of a tick composites the frame with the mask it got
Composite ==
    /\ IsLive(cap) /\ cutout_enabled /\ segmenter = "Ready"
    /\ res' = composite(arg.frame, arg.mask)
    /\ UNCHANGED <<objVars, arg>>

NextAlpha == ToggleCutout \/ Composite

SpecAlpha == InitAlpha /\ [][NextAlpha]_vars

\* ------------------------------------------------- _render_placeholder
\* a message is [some, text]: some is false for None, text is the string,
\* a sequence of one-character strings
Newline == "\n"

Letters == <<"a", "b", "c", "d", "e", "f", "g", "h">>

\* the literal "error"
ErrorText == <<"e", "r", "r", "o", "r">>

Min(a, b) == IF a <= b THEN a ELSE b

\* seq[:n]
Prefix(seq, n) == SubSeq(seq, 1, Min(Len(seq), n))

\* str.splitlines() of a text whose only line boundary is "\n": the pieces
\* between the newlines, a last piece without newline included when it is
\* not empty
splitlines(text) ==
    LET nl == {i \in 1..Len(text) : text[i] = Newline}
        \* where line k starts, and the newline or text end that closes it
        ends == nl \cup (IF Len(text) > 0 /\ text[Len(text)] # Newline
                         THEN {Len(text) + 1} ELSE {})
        EndOf(k) == CHOOSE e \in ends : Cardinality({q \in ends : q <= e}) = k
        StartOf(k) == IF k = 1 THEN 1 ELSE EndOf(k - 1) + 1
    IN  [k \in 1..Cardinality(ends) |-> SubSeq(text, StartOf(k), EndOf(k) - 1)]

\* a plausible slip: the lines are drawn at their full length
placeholder_lines_uncut(message) ==
    LET lines == IF message.some /\ message.text # <<>>
                 THEN splitlines(message.text)
                 ELSE <<ErrorText>>
    IN  Prefix(lines, PlaceholderLines)

\* _render_placeholder: the texts handed to cv2.putText, top to bottom
placeholder_lines(message) ==
    LET lines == IF message.some /\ message.text # <<>>
                 THEN splitlines(message.text)
                 ELSE <<ErrorText>>
        shown == Prefix(lines, PlaceholderLines)
    IN  [i \in 1..Len(shown) |-> Prefix(shown[i], PlaceholderLineChars)]

\* line k of a message, of the given length: its letters depend on k and on
\* the position
LineOf(k, len) == [i \in 1..len |-> Letters[((k + i) % Len(Letters)) + 1]]

\* the lengths of the lines: empty, as wide as is drawn, wider
LineLens == {0, PlaceholderLineChars, PlaceholderLineChars + LineOvershoot}

RECURSIVE JoinLines(_, _)
\* the lines, each followed by a newline; the last newline is left out when
\* open is true
JoinLines(lines, open) ==
    IF lines = <<>> THEN <<>>
    ELSE IF Len(lines) = 1 /\ open THEN lines[1]
    ELSE lines[1] \o <<Newline>> \o JoinLines(Tail(lines), open)

\* the messages: None, and the texts of 0..most lines; a text may end
\* without newline when its last line is not empty
PlaceholderInputs(most) ==
    {[op |-> "placeholder", lines |-> <<>>,
      message |-> [some |-> FALSE, text |-> <<>>]]}
    \cup
    UNION { UNION { { [op |-> "placeholder",
                       lines |-> [k \in 1..n |-> LineOf(k, lens[k])],
                       message |->
                           [some |-> TRUE,
                            text |-> JoinLines([k \in 1..n |-> LineOf(k, lens[k])],
                                               open)]]
                      : open \in (IF n > 0 /\ lens[n] > 0 THEN BOOLEAN
                                  ELSE {FALSE}) }
                    : lens \in [1..n -> LineLens] }
            : n \in 0..most }

InitPlaceholder ==
    \E inputs \in {PlaceholderInputs(MaxLines)} :
        InitLiveObject /\ arg \in inputs /\ res = NoArg

\* _render_placeholder runs on the message
RenderPlaceholder ==
    /\ res = NoArg
    /\ res' = placeholder_lines(arg.message)
    /\ UNCHANGED <<objVars, arg>>

NextPlaceholder == RenderPlaceholder

SpecPlaceholder == InitPlaceholder /\ [][NextPlaceholder]_vars

\* ------------------------------------------------- recovery, step by step
\* the conditions a tick met: the permission was denied or restricted, or
\* the backends were asked and none opened
Unfavourable(status, e) == status \in {"Denied", "Restricted"} \/ e.refused

\* the QTimer fires; goodRun counts the not-live ticks since the conditions
\* were last unfavourable
TickR ==
    /\ IsLive(cap) \/ open_retry_counter < MaxRecoveryCounter
    /\ TickStep
    /\ goodRun' = IF IsLive(cap) \/ Unfavourable(authStatus, ev') THEN 0
                  ELSE goodRun + 1

CloseR == CloseStep /\ goodRun' = (IF IsLive(cap) THEN 0 ELSE goodRun)

DeviceLostR == DeviceLostStep /\ goodRun' = 0

NextRecovery == TickR \/ ToggleCutout \/ CloseR \/ DeviceLostR \/ AuthChange

SpecRecovery == Init /\ [][NextRecovery]_vars

\* =================================================================== C1
\* C1: while the device has not been live at startup nor since, the ticks
\* (counted from 1) on which update_frame tried a reopen are exactly the
\* multiples of 30 reached so far, and a tick tries a reopen exactly when it
\* re-checked the permission
C1_ReopenEvery30thTick ==
    ~everLive =>
        /\ attempts = {t \in 1..tickNo : t % 30 = 0}
        /\ (ev.op = "tick" => (ev.reopen <=> ev.permCheck))

C1_Witness == ~everLive /\ tickNo = 61 /\ attempts = {30, 60}


\* =================================================================== C2
\* the messages a missing model asset records
AssetMissingMessage(outcome) ==
    IF outcome = "notfound" THEN MsgModelNotFound ELSE MsgModelMissing

\* a tick that read a frame with cutout on and a usable model
CutoutTickRead ==
    ev.op = "tick" /\ ev.live /\ ev.read /\ cutout_enabled /\ segmenter = "Ready"

\* C2 (as amended): a toggle-on that meets missing model assets leaves
\* cutout_enabled false and displays the placeholder of the asset-missing
\* message; a toggle-on whose initialisation succeeds sets cutout_enabled;
\* and a tick that then reads a frame, gets a mask from the model and meets
\* no failure displays the masked (RGBA) live frame
C2_ToggleOnMissingAssets ==
    /\ (ev.op = "toggle" /\ ev.wasOff /\ ev.outcome \in {"notfound", "filenotfound"}
          => /\ ~cutout_enabled
             /\ segmenter = None
             /\ camera_error_message = AssetMissingMessage(ev.outcome)
             /\ pixmap.kind = "placeholder"
             /\ pixmap.text = AssetMissingMessage(ev.outcome))
    /\ (ev.op = "toggle" /\ ev.wasOff /\ ev.outcome = "ok"
          => cutout_enabled /\ segmenter = "Ready")
    /\ (CutoutTickRead /\ ev.mask /\ ~ev.raised => pixmap.kind = "rgba")

\* missing assets, then a successful toggle-on, then a masked frame
C2_Witness ==
    /\ initFailed \in {"notfound", "filenotfound"}
    /\ CutoutTickRead /\ ev.mask /\ ~ev.raised
    /\ pixmap.kind = "rgba"

\* C2 as claimed: every tick with a successful read (and no failure raised)
\* after the successful toggle-on displays the masked live frame
C2_AsClaimed ==
    initFailed \in {"notfound", "filenotfound"} /\ CutoutTickRead /\ ~ev.raised
        => pixmap.kind = "rgba"

\* =================================================================== C3
\* C3: during a run of N >= 1 consecutive ticks whose read failed, the
\* device handle, retry counter, error message, cutout flag, model and
\* displayed bitmap are those from before the first tick of the run, and no
\* failure was raised
C3_FailedReadsChangeNothing ==
    failRun > 0 => Self = snap /\ ~ev.raised /\ ~escaped

C3_Witness == failRun = 3 /\ pixmap.kind = "rgb" /\ IsLive(cap)

\* =================================================================== C4
\* a step of a handler (the authorization status is the environment's)
HandlerStep == authStatus' = authStatus /\ ev'.op # "lost"

\* C4: at most one model is ever constructed; once the model exists, a
\* handler constructs none, a toggle-on succeeds leaving message, bitmap and
\* model as they were, and only closeEvent ends the model
C4_ModelConstructedOnce ==
    /\ [](constructCount <= 1)
    /\ [][segmenter # None /\ HandlerStep =>
            /\ ev'.inits = 0 /\ ev'.constructed = 0
            /\ constructCount' = constructCount
            /\ (ev'.op = "toggle" /\ ev'.wasOff =>
                   /\ cutout_enabled'
                   /\ segmenter' = segmenter
                   /\ camera_error_message' = camera_error_message
                   /\ pixmap' = pixmap)
            /\ (ev'.op # "close" => segmenter' = segmenter)]_vars

\* a toggle-on that found the model built earlier
C4_Witness ==
    /\ constructCount = 1 /\ ~closed
    /\ ev.op = "toggle" /\ ev.wasOff /\ ev.outcome = "na" /\ cutout_enabled

\* =================================================================== C5
\* C5: a model initialisation is attempted only by a toggle-on, once per
\* toggle-on; no tick attempts one
C5_InitOnlyOnToggleOn ==
    /\ (ev.inits > 0 => ev.op = "toggle" /\ ev.wasOff /\ ev.inits = 1)
    /\ (ev.op = "tick" => ev.inits = 0)

\* a tick that read a frame after a failed initialisation
C5_Witness ==
    /\ initFailed # "na" /\ segmenter = None
    /\ ev.op = "tick" /\ ev.live /\ ev.read /\ ev.inits = 0

\* =================================================================== C6
\* C6: a tick that started with the device not live displays a placeholder,
\* whose text is the recorded error message, or the camera-unavailable text
\* when none is recorded
C6_NotLiveShowsPlaceholder ==
    ev.op = "tick" /\ ~ev.live =>
        /\ pixmap.kind = "placeholder"
        /\ pixmap.text = IF camera_error_message = None
                         THEN MsgCameraUnavailable
                         ELSE camera_error_message

\* a 30th tick whose reopen succeeded, with no message recorded
C6_Witness ==
    /\ ev.op = "tick" /\ ~ev.live /\ ev.reopen /\ IsLive(cap)
    /\ pixmap.text = MsgCameraUnavailable


\* =================================================================== C8
\* C8: a tick in which a frame step raised an unexpected failure displays
\* the generic error placeholder, the failure leaves no handler uncaught, and
\* a further tick can run
C8_FailureCaughtInTick ==
    ev.op = "tick" /\ ev.raised =>
        /\ pixmap = render_placeholder(MsgGeneric)
        /\ ~ev.escaped /\ ~escaped
        /\ ENABLED Tick

\* a failure raised after a frame was read
C8_Witness ==
    /\ ev.op = "tick" /\ ev.raised /\ ev.read
    /\ pixmap.kind = "placeholder" /\ pixmap.text = MsgGeneric

\* =================================================================== C9
\* C9: a closeEvent leaves the device not live; it calls release() once when
\* the handle was live and not at all otherwise (None, never opened, already
\* released), and then the release step raises nothing; a closeEvent that
\* follows a closeEvent releases nothing
C9_ReleaseOnceOnClose ==
    /\ [](ev.op = "close" =>
            /\ ~IsLive(cap)
            /\ (~ev.live => ev.releases = 0 /\ ~ev.escaped))
    /\ [][ev'.op = "close" /\ HandlerStep =>
            /\ ev'.live = IsLive(cap)
            /\ ev'.releases = (IF IsLive(cap) THEN 1 ELSE 0)
            /\ (ev.op = "close" => ev'.releases = 0)
            /\ (cap = None => cap' = None)]_vars

\* a second closeEvent on the handle the first one released
C9_Witness ==
    closed /\ ev.op = "close" /\ ev.releases = 0 /\ cap = "Released"

\* ================================================================== C10
\* C10: requestAccess is called at most once, however often the status
\* NotDetermined is read
C10_PromptAtMostOnce == promptCount <= 1

\* the status was read as NotDetermined twice, one prompt was fired
C10_Witness == promptCount = 1 /\ ndSeen = 2 /\ permission_requested


\* ================================================================== C16
\* C16: before closeEvent has run, cutout_enabled implies that the model is
\* constructed and ready; no tick ever goes beyond the "if self.segmenter"
\* test of _ensure_segmenter_ready, and a tick that got a mask from the model
\* before closeEvent got it from a ready model
C16_CutoutImpliesModel ==
    /\ (~closed /\ cutout_enabled => segmenter = "Ready")
    /\ (ev.op = "tick" => ev.inits = 0)
    /\ (~closed /\ ev.op = "tick" /\ ev.mask => segmenter = "Ready")

\* a tick composites with the mask of the ready model
C16_Witness ==
    /\ ~closed /\ cutout_enabled /\ segmenter = "Ready"
    /\ ev.op = "tick" /\ ev.mask /\ pixmap.kind = "rgba"


\* ================================================================== C20
\* the message a failed initialisation of the model records
InitFailureMessage(outcome) ==
    IF outcome = "notfound" THEN MsgModelNotFound
    ELSE IF outcome = "filenotfound" THEN MsgModelMissing
    ELSE MsgInitFailed

\* C20: camera_error_message is one slot.  A failed reopen leaves in it the
\* device or permission message of that attempt and a failed initialisation
\* of the model leaves its model message, whatever the slot held; no step
\* ever sets it back to None: a reopen that succeeds keeps what was recorded
\* (or the AVFoundation message its permission check recorded) and an
\* initialisation that succeeds keeps the slot as it was.  Once the slot is
\* set, the placeholder of a not-live tick carries its content and not the
\* default text
C20_ErrorSlotNeverCleared ==
    /\ [](ev.op = "tick" /\ ~ev.live /\ camera_error_message # None =>
            /\ pixmap = render_placeholder(camera_error_message)
            /\ pixmap.text # MsgCameraUnavailable)
    /\ [](ev.op = "tick" /\ ev.reopen /\ ~IsLive(cap) /\ cap # "Lost" =>
            camera_error_message \in {MsgPermissionOff, MsgCheckPermission})
    /\ [](ev.op = "toggle" /\ ev.inits > ev.constructed =>
            camera_error_message = InitFailureMessage(ev.outcome))
    /\ [][/\ (camera_error_message # None => camera_error_message' # None)
          /\ (HandlerStep /\ ~IsLive(cap) /\ IsLive(cap') =>
                camera_error_message' \in {camera_error_message, MsgAVFoundation})
          /\ (HandlerStep /\ ev'.constructed = 1 =>
                camera_error_message' = camera_error_message)]_vars

\* the device was never live, so a device or permission message was
\* recorded; a failed toggle overwrote it and a later not-live tick draws
\* the model's message
C20_Witness ==
    /\ ~everLive /\ tickNo > 30
    /\ ev.op = "tick" /\ ~ev.live /\ ~ev.reopen
    /\ camera_error_message = MsgModelMissing
    /\ pixmap = render_placeholder(MsgModelMissing)


\* ================================================================== C19
\* C19: in every state after closeEvent has run the device handle is not
\* live, whatever ticks are delivered afterwards.  closeEvent stops no
\* timer, the not-live branch of update_frame keeps counting and reopens
\* the device when the counter reaches a multiple of 30
C19_NoReopenAfterClose == closed => ~IsLive(cap)


\* ================================================================== C18
\* C18: the retry counter never decreases: it grows by exactly 1 on each
\* tick that starts with the device not live and is left alone by every
\* other step, a tick that reopens the device included.  A tick tries a
\* reopen exactly when it met the device not live and the counter has
\* reached a multiple of 30.  The device is live only at a multiple of 30
\* (0 at startup), so every outage starts at one: within an outage the
\* reopen attempts fall exactly on its 30th, 60th, ... tick, also in an
\* outage that follows a recovery
C18_CounterMonotone ==
    /\ [][open_retry_counter' =
            IF HandlerStep /\ ev'.op = "tick" /\ ~IsLive(cap)
            THEN open_retry_counter + 1
            ELSE open_retry_counter]_vars
    /\ [](ev.op = "tick" =>
            (ev.reopen <=> ~ev.live /\ open_retry_counter % RetryPeriod = 0))
    /\ [](IsLive(cap) => open_retry_counter % RetryPeriod = 0)
    /\ [](ev.op = "tick" /\ ~ev.live =>
            /\ outageTicks > 0
            /\ (ev.reopen <=> outageTicks % RetryPeriod = 0))

\* the device was reopened at count 30 and lost again; the first reopen
\* attempt of the new outage runs on its 30th tick, at count 60
C18_Witness ==
    /\ ev.op = "tick" /\ ev.reopen
    /\ open_retry_counter = 60 /\ outageTicks = 30

\* C18 as claimed, its last clause: in an outage that began after a
\* recovery (at a count above 0) the first reopen attempt comes fewer than
\* 30 ticks into the outage
C18_EarlyReopenAfterRecovery ==
    /\ ev.op = "tick" /\ ev.reopen
    /\ 0 < open_retry_counter - outageTicks
    /\ outageTicks <= RetryPeriod
    => outageTicks < RetryPeriod


\* ================================================================== C17
\* C17: a device that is not live has met fewer than 30 ticks in a row on
\* which the permission was not denied or restricted and no asked backend
\* refused: the 30th such tick at the latest leaves it live.  A tick that
\* reopens leaves the placeholder on display; a later tick that starts with
\* the device live and a placeholder on display, reads a frame, raises
\* nothing and, with cutout on, gets a mask, displays that frame
C17_BoundedRecovery ==
    /\ [](goodRun <= RetryPeriod)
    /\ [](~IsLive(cap) => goodRun < RetryPeriod)
    /\ [](ev.op = "tick" /\ ev.reopen => pixmap.kind = "placeholder")
    /\ [][/\ HandlerStep /\ ev'.op = "tick"
          /\ IsLive(cap) /\ pixmap.kind = "placeholder"
          /\ ev'.read /\ ~ev'.raised /\ (cutout_enabled => ev'.mask)
          => /\ pixmap'.kind = (IF cutout_enabled THEN "rgba" ELSE "rgb")
             /\ pixmap'.frame \in Frames]_vars

\* thirty favourable ticks in a row were needed and the thirtieth reopened
\* the device
C17_Witness ==
    /\ goodRun = RetryPeriod /\ IsLive(cap)
    /\ ev.op = "tick" /\ ev.reopen /\ pixmap.kind = "placeholder"

\* C17 as claimed, its last clause: the tick that follows the recovery, when
\* its read succeeds and nothing is raised, displays a live frame
C17_LiveFrameAfterRecovery ==
    [][/\ HandlerStep /\ ev'.op = "tick"
       /\ IsLive(cap) /\ goodRun > 0 /\ ev.op = "tick" /\ ev.reopen
       /\ ev'.read /\ ~ev'.raised
       => pixmap'.kind \in {"rgb", "rgba"}]_vars


\* ================================================================== C11
\* C11: a run of the permission completion handler, whenever it comes
\* (between ticks and toggles, after closeEvent) and whatever it is told,
\* leaves the device handle, the error message, the retry counter, the
\* cutout flag, the shape, the zoom value, the model and the displayed
\* bitmap as they were
C11_CallbackChangesNothing ==
    [][HandlerStep /\ ev'.op = "callback" =>
         UNCHANGED <<cap, camera_error_message, open_retry_counter,
                     cutout_enabled, shape, zoom_bar, segmenter, pixmap,
                     permission_requested>>]_vars

\* the handler ran with the answer "denied" after closeEvent, on an object
\* whose shape, zoom and cutout flag had been changed
C11_Witness ==
    /\ ev.op = "callback" /\ ev.outcome = "denied" /\ closed
    /\ shape = "circle" /\ zoom_bar = zoom_max /\ cutout_enabled
    /\ pending = 0

\* ================================================================== C13
\* C13: the value the scroll bar keeps is always within zoom_min..zoom_max
\* (100..300), whatever values are asked of it; so is the value handed to
\* on_zoom_change and the value a tick reads in _apply_zoom (a factor of
\* 1.0 to 3.0)
C13_ZoomWithinRange ==
    /\ zoom_bar \in zoom_min..zoom_max
    /\ (ev.op \in {"tick", "zoom"} /\ ev.zoom # 0 =>
          ev.zoom \in zoom_min..zoom_max)

\* a value above the range was asked, the bar kept zoom_max and a tick read
\* it
C13_Witness ==
    /\ ev.op = "tick" /\ ev.read /\ ev.zoom = zoom_max
    /\ zoom_bar = zoom_max /\ pixmap.kind = "rgb"


\* ================================================================== C12
\* C12: _apply_zoom returns the frame as it is when the zoom factor is at
\* most 1.0; for a factor z in (1.0, 3.0] (value / 100) it returns the crop
\* of max(1, floor(W / z)) by max(1, floor(H / z)) pixels at the origin
\* (floor((W - cropW) / 2), floor((H - cropH) / 2)), which lies inside the
\* frame with its centre within 1 pixel of the frame's centre
C12_CenterCrop ==
    arg # NoArg /\ arg.op = "zoom" /\ res # NoArg =>
        LET c == res.crop IN
        IF res.value <= ZoomScale
        THEN c = [x |-> 0, y |-> 0, w |-> arg.w, h |-> arg.h]
        ELSE /\ c.w = Max(1, (ZoomScale * arg.w) \div res.value)
             /\ c.h = Max(1, (ZoomScale * arg.h) \div res.value)
             /\ c.x = (arg.w - c.w) \div 2
             /\ c.y = (arg.h - c.h) \div 2
             /\ 0 <= c.x /\ c.x + c.w <= arg.w
             /\ 0 <= c.y /\ c.y + c.h <= arg.h
             /\ 2 * c.x + c.w \in (arg.w - 2)..(arg.w + 2)
             /\ 2 * c.y + c.h \in (arg.h - 2)..(arg.h + 2)

\* ================================================================== C14
\* C14: every pixel of the 4-channel bitmap composited with a mask has
\* alpha 255 if its mask value is above 0.5 and alpha 0 otherwise (0 at
\* exactly 0.5), and its R, G, B are the frame's channels at that pixel,
\* reordered from B, G, R, whatever the alpha
C14_HardThresholdAlpha ==
    arg # NoArg /\ arg.op = "alpha" /\ res # NoArg =>
        /\ Len(res) = Len(arg.frame)
        /\ \A i \in 1..Len(res) :
              /\ res[i][4] = (IF arg.mask[i] > MaskThreshold THEN 255 ELSE 0)
              /\ (arg.mask[i] = MaskThreshold => res[i][4] = 0)
              /\ res[i][1] = arg.frame[i][3]
              /\ res[i][2] = arg.frame[i][2]
              /\ res[i][3] = arg.frame[i][1]

\* a pixel at exactly 0.5 is transparent, one just above is opaque, both
\* keep their colour
C14_Witness ==
    /\ arg # NoArg /\ arg.op = "alpha" /\ res # NoArg
    /\ arg.mask[1] = MaskThreshold /\ res[1][4] = 0
    /\ arg.mask[2] = MaskThreshold + 1 /\ res[2][4] = 255
    /\ arg.frame[1] = <<255, 0, 0>> /\ res[1] = <<0, 0, 255, 0>>


\* ================================================================== C15
\* C15: _render_placeholder draws the single line "error" when the message
\* is None or empty; otherwise it draws the first min(6, number of lines)
\* lines of the message, in order, each cut to its first 64 characters,
\* and nothing of the lines after the sixth
C15_PlaceholderLines ==
    arg # NoArg /\ arg.op = "placeholder" /\ res # NoArg =>
        IF ~arg.message.some \/ arg.message.text = <<>>
        THEN res = <<ErrorText>>
        ELSE /\ Len(res) = Min(6, Len(arg.lines))
             /\ \A i \in 1..Len(res) :
                   /\ Len(res[i]) = Min(64, Len(arg.lines[i]))
                   /\ \A j \in 1..Len(res[i]) : res[i][j] = arg.lines[i][j]

\* a message of seven lines, the first wider than 64 characters, the second
\* empty: six lines are drawn, the first cut to 64
C15_Witness ==
    /\ arg # NoArg /\ arg.op = "placeholder" /\ res # NoArg
    /\ Len(arg.lines) = 7 /\ Len(res) = 6
    /\ Len(arg.lines[1]) > 64 /\ Len(res[1]) = 64
    /\ arg.lines[2] = <<>> /\ res[2] = <<>>


\* ================================================================== C21
\* the authorization status a call of _open_camera met is Denied or Restricted
OpenDenied(o) == o.status \in {"Denied", "Restricted"}

\* C21: every call of _open_camera, at startup or on a retry tick, returns a
\* live handle exactly when permission is not denied or restricted and at
\* least one backend opens.  Under a denied or restricted permission it
\* calls no backend, leaves the permission message and returns no handle.
\* Otherwise it calls the preferred backend first and the fallback exactly
\* when the preferred one did not open, returns the handle of the first
\* that opened, and when neither opens leaves the check-permission message
\* and returns no handle.  The caller stores what was returned in self.cap.
C21_OpenCameraOutcome ==
    ev.open.called =>
        LET o == ev.open IN
        /\ IsLive(o.cap) <=> (~OpenDenied(o) /\ (o.pref \/ o.fb))
        /\ OpenDenied(o) =>
              /\ o.tried = <<>>
              /\ o.msg = MsgPermissionOff
              /\ o.cap = None /\ o.backend = None
        /\ ~OpenDenied(o) =>
              /\ o.tried = IF o.pref THEN <<"preferred">>
                           ELSE <<"preferred", "fallback">>
              /\ o.backend = IF o.pref THEN "preferred"
                             ELSE IF o.fb THEN "fallback" ELSE None
              /\ o.backend # None => IsLive(o.cap)
              /\ ~o.pref /\ ~o.fb => o.cap = None /\ o.msg = MsgCheckPermission
        /\ (ev.op \in {"init", "tick"} /\ ev.reopen) =>
              /\ IsLive(cap) = IsLive(o.cap)
              /\ camera_error_message = o.msg

\* a retry tick under a granted permission met a preferred backend that did
\* not open and a fallback that did, and the device is live again
C21_Witness ==
    /\ ev.op = "tick" /\ ev.open.called
    /\ sysenv.platform = "darwin" /\ sysenv.avf
    /\ ev.open.status = "Authorized"
    /\ ~ev.open.pref /\ ev.open.fb
    /\ ev.open.tried = <<"preferred", "fallback">>
    /\ ev.open.backend = "fallback"
    /\ IsLive(cap)

====
